---- MODULE Spec2Model ----
(***************************************************************************)
(* Authentication / session lifecycle of the Medify AI Nexus front end:    *)
(* the token slot in localStorage, the AuthProvider (user, isLoading, the  *)
(* refresh interval), the Login page (credentials form, two-factor form),  *)
(* the PrivateRoute guard, the generic apiRequest wrapper with its 401     *)
(* handling, and the REST back end as far as the client observes it.       *)
(*                                                                         *)
(* Every asynchronous client operation suspends at its network call: the   *)
(* request is put in `inflight` carrying the bearer token that             *)
(* getAuthHeaders read when it was sent, and a later step runs the back     *)
(* end's answer together with the continuation of the awaiting code.       *)
(***************************************************************************)
EXTENDS Integers, FiniteSets, Sequences, TLC

\* ---------------------------------------------------------------- bounds
MaxTok      == 3    \* number of tokens the back end can issue in a run
MaxInflight == 2    \* number of requests awaiting an answer at a time

\* ------------------------------------------------------------- constants
NoUser  == "null"                 \* useState<User | null>(null)
Accounts == {"plain", "tfa"}      \* an account without / with 2FA enrolled
\* an access token: the id-th token the back end signed, for an account
\* ("prov": the provisional token of a login that still awaits its 2FA code)
Token(id, kind) == [id |-> id, kind |-> kind]
None == Token(0, "none")          \* localStorage.getItem("token") === null
Tokens == {Token(i, k) : i \in 1..MaxTok, k \in Accounts \cup {"prov"}}
LoginPath == "/login"
Protected == {"/", "/patients"}   \* routes wrapped in <PrivateRoute>
Paths == Protected \cup {LoginPath}
Failures == {"unauthorized", "network"}
Endpoints == {"patients", "patientStatus"}

VARIABLES
  token,          \* localStorage slot "token"
  user,           \* AuthProvider: user
  isLoading,      \* AuthProvider: isLoading
  timers,         \* AuthProvider: refresh intervals set and not cleared
  pcCheck,        \* position of checkAuth: mount, refresh, me, done
  needsTwoFactor, \* Login: needsTwoFactor
  formLoading,    \* Login: isLoading (submit buttons disabled)
  toast,          \* last toast shown
  location,       \* router location
  from,           \* location.state.from handed to /login by the guard
  href,           \* window.location.href = "/login" assigned, page not yet unloaded
  inflight,       \* requests sent and not yet answered
  issued,         \* back end: number of tokens signed so far
  expired,        \* back end: tokens with id <= expired are past their lifetime
  pending,        \* back end: a provisional (2FA pending) login context exists
  verified,       \* history: a verifyTwoFactor call has succeeded
  ev,             \* the operation that made the last step, and the state it ran in
  loggedOut,      \* history: the Navbar's logout ran, and no login or verification succeeded since
  tokenAge,       \* minutes since the back end signed its newest token
  timerAge        \* minutes since the running refresh interval was set or last fired

vars == <<token, user, isLoading, timers, pcCheck, needsTwoFactor, formLoading,
          toast, location, from, href, inflight, issued, expired, pending,
          verified, ev, loggedOut, tokenAge, timerAge>>

\* the clocks advance in SpecTimed only; Spec is the untimed behaviour
clocks == <<tokenAge, timerAge>>

\* ------------------------------------------------------------ back end
\* (the back end's code is not part of the sources; its answers follow the
\*  REST table of the specification)

\* the bearer token is a full access token within its lifetime (tokens have
\* one fixed lifetime, so they expire in the order they were signed)
Valid(t) == t.kind \in Accounts /\ t.id > expired

Req(op, tok, acct, good) == [op |-> op, tok |-> tok, acct |-> acct, good |-> good]

\* the status the back end answers a request with
ServerStatus(r) ==
  CASE r.op = "login"  -> IF ~r.good THEN "unauthorized"
                          ELSE IF r.acct = "tfa" THEN "twofactor" ELSE "ok"
    [] r.op = "verify" -> IF r.good /\ pending THEN "ok" ELSE "unauthorized"
    [] OTHER           -> IF Valid(r.tok) THEN "ok" ELSE "unauthorized"

\* the account a newly issued token belongs to
IssuedFor(r) ==
  CASE r.op = "login"  -> r.acct
    [] r.op = "verify" -> "tfa"
    [] OTHER           -> r.tok.kind

\* the UserProfile GET /auth/me answers with
Profile(r) == IF Valid(r.tok) THEN r.tok.kind ELSE NoUser

\* every request may also fail in transport ("network": fetch rejects; a
\* non-401 error status is thrown by apiRequest to the same catch blocks)
Outcomes(r) == {ServerStatus(r), "network"}

\* ------------------------------------------------------- client functions
\* c is the part of the browser state the api layer and the AuthProvider
\* write: [token, user, href], and fresh: setUser got a new profile object

Client == [token |-> token, user |-> user, href |-> href, fresh |-> FALSE]

getAuthHeaders(tok) == tok

Throws(st) == st \in Failures

\* variant: the 401 branch redirects but leaves the token in place
apiRequestKeepsToken(c, st) ==
  IF st = "unauthorized" THEN [c EXCEPT !.href = TRUE] ELSE c

apiRequest(c, st) ==
  IF st = "unauthorized" THEN [c EXCEPT !.token = None, !.href = TRUE] ELSE c

\* variant: the token is written without the if (response.access_token) test
storeAccessTokenUnguarded(c, access) == [c EXCEPT !.token = access]

storeAccessToken(c, access) ==
  IF access # None THEN [c EXCEPT !.token = access] ELSE c

login(c, st, access) ==
  LET c1 == apiRequest(c, st)
  IN  IF Throws(st) THEN c1 ELSE storeAccessToken(c1, access)

verifyTwoFactor(c, st, access) ==
  LET c1 == apiRequest(c, st)
  IN  IF Throws(st) THEN c1 ELSE storeAccessToken(c1, access)

refreshToken(c, st, access) ==
  LET c1 == apiRequest(c, st)
  IN  IF Throws(st) THEN c1 ELSE storeAccessToken(c1, access)

\* variant: the fetched profile is not handed to setUser
fetchUserDataDropsProfile(c, st, profile) ==
  LET c1 == apiRequest(c, st)
  IN  IF Throws(st) THEN [c1 EXCEPT !.user = NoUser] ELSE c1

fetchUserData(c, st, profile) ==
  LET c1 == apiRequest(c, st)
  IN  IF Throws(st) THEN [c1 EXCEPT !.user = NoUser]
      ELSE [c1 EXCEPT !.user = profile, !.fresh = TRUE]

\* variant: logout without localStorage.removeItem("token")
logoutKeepsToken(c) == [c EXCEPT !.user = NoUser, !.href = TRUE]

\* variant: logout without setUser(null)
logoutKeepsUser(c) == [c EXCEPT !.token = None, !.href = TRUE]

logout(c) == [c EXCEPT !.token = None, !.user = NoUser, !.href = TRUE]

\* variant: only an unauthorized refresh ends the session
refreshIntervalCatchAuthOnly(c, st) == IF st = "unauthorized" THEN logout(c) ELSE c

refreshIntervalCatch(c, st) == IF Throws(st) THEN logout(c) ELSE c

\* isLoading when checkAuth leaves its try statement (thrown: by an exception)
\* variant: setIsLoading(false) is the last statement of the try block, there
\* is no finally block
checkAuthFinallyInTry(loading, thrown) == IF thrown THEN loading ELSE FALSE

checkAuthFinally(loading, thrown) == FALSE

checkAuthCatch(c, st) == IF Throws(st) THEN [c EXCEPT !.token = None] ELSE c

\* the dependency [user] of the interval effect changed in a render in which
\* user went from prev to next (fresh: setUser was given a newly parsed
\* profile object, which is a new identity even for the same account)
\* n is the number of intervals set and not cleared
\* variant: the effect returns no cleanup function
userChanged(prev, next, fresh) == next # prev \/ fresh

refreshIntervalEffectNoCleanup(n, prev, next, fresh) ==
  IF ~userChanged(prev, next, fresh) THEN n
  ELSE IF next # NoUser THEN n + 1 ELSE n

refreshIntervalEffect(n, prev, next, fresh) ==
  IF ~userChanged(prev, next, fresh) THEN n
  ELSE LET cleared == IF prev # NoUser THEN n - 1 ELSE n
       IN  IF next # NoUser THEN cleared + 1 ELSE cleared

IsAuthenticated(u) == u # NoUser

\* variant: the guard without its isLoading branch
PrivateRouteNoLoading(loading, authenticated) ==
  IF ~authenticated THEN "redirect" ELSE "children"

PrivateRoute(loading, authenticated) ==
  IF loading THEN "loading"
  ELSE IF ~authenticated THEN "redirect"
  ELSE "children"

\* Login.onSubmit: needsTwoFactor after the response (navigate("/") on
\* success unmounts Login, whose state starts again from false)
\* variant: the requires_two_factor flag of the response is not looked at
onSubmitNeedsTwoFactorIgnored(st, n2f) == IF st = "ok" THEN FALSE ELSE n2f

onSubmitNeedsTwoFactor(st, n2f) ==
  IF st = "twofactor" THEN TRUE
  ELSE IF st = "ok" THEN FALSE
  ELSE n2f

\* ------------------------------------------------------------- rendering
SessionState(u, n2f) ==
  IF IsAuthenticated(u) THEN "Authenticated"
  ELSE IF n2f THEN "AwaitingTwoFactor"
  ELSE "Anonymous"

Event(op, out, r) ==
  [op |-> op, out |-> out,
   pre |-> SessionState(user, needsTwoFactor), preTok |-> token, preUser |-> user,
   preLoc |-> location, preFrom |-> from]

NoReq == Req("-", None, "-", TRUE)

\* what the router shows at loc
View(loc, loading, u) ==
  IF loc = LoginPath THEN "login" ELSE PrivateRoute(loading, IsAuthenticated(u))

\* <Navigate to="/login" state={{from: location}} replace /> is carried out
\* as part of the render that follows each state change
\* variant: <Navigate to="/login" replace /> without state
RenderDropsFrom(loc) ==
  LET redirect == View(loc, isLoading', user') = "redirect"
  IN  /\ location' = IF redirect THEN LoginPath ELSE loc
      /\ from' = from

Render(loc) ==
  LET redirect == View(loc, isLoading', user') = "redirect"
  IN  /\ location' = IF redirect THEN LoginPath ELSE loc
      /\ from' = IF redirect THEN loc ELSE from

Commit(c) ==
  /\ token' = c.token
  /\ user' = c.user
  /\ href' = c.href
  /\ timers' = refreshIntervalEffect(timers, user, c.user, c.fresh)

\* variant: useState(false)
initialIsLoadingFalse == FALSE

initialIsLoading == TRUE          \* useState(true)

Init ==
  /\ token = None
  /\ user = NoUser
  /\ isLoading = initialIsLoading
  /\ timers = 0
  /\ pcCheck = "mount"
  /\ needsTwoFactor = FALSE
  /\ formLoading = FALSE
  /\ toast = "none"
  /\ location \in Paths
  /\ from = "none"
  /\ href = FALSE
  /\ inflight = {}
  /\ issued = 0
  /\ expired = 0
  /\ pending = FALSE
  /\ verified = FALSE
  /\ ev = [op |-> "init", out |-> "-",
           pre |-> "Anonymous", preTok |-> None, preUser |-> NoUser,
           preLoc |-> location, preFrom |-> "none"]
  /\ loggedOut = FALSE
  /\ tokenAge = 0
  /\ timerAge = 0


\* --------------------------------------------------------------- actions
Alive == ~href /\ pcCheck # "mount"     \* the user can act on the page

timerOn == timers > 0                   \* a refresh interval is running

CanSend(r) == r \notin inflight /\ Cardinality(inflight) < MaxInflight

IssuingOps == {"login", "verify", "refreshInterval", "checkRefresh"}

\* the access_token a response with status st may carry: a newly signed
\* token on success, and with requires_two_factor either none or a
\* provisional one (TokenResponse declares access_token for both)
Signed(kind) == IF issued < MaxTok THEN {Token(issued + 1, kind)} ELSE {}

Grants(r, st) ==
  IF st = "ok" /\ r.op \in IssuingOps THEN Signed(IssuedFor(r))
  ELSE IF st = "twofactor" THEN {None} \cup Signed("prov")
  ELSE {None}

\* the back end answers r with status st, handing out token access (or none)
ServerStep(r, st, access) ==
  /\ r \in inflight
  /\ st \in Outcomes(r)
  /\ access \in Grants(r, st)
  /\ issued' = IF access = None THEN issued ELSE issued + 1
  /\ expired' = expired
  /\ pending' = IF st = "twofactor" THEN TRUE
                ELSE IF r.op = "verify" /\ st = "ok" THEN FALSE
                ELSE pending
  /\ verified' = (verified \/ (r.op = "verify" /\ st = "ok"))

\* the browser loads the document at p: AuthProvider and Login are mounted
\* afresh, whatever the old page awaited is gone; localStorage is kept
Mount(p) ==
  /\ UNCHANGED loggedOut
  /\ UNCHANGED clocks
  /\ user' = NoUser
  /\ isLoading' = initialIsLoading
  /\ timers' = 0
  /\ pcCheck' = "mount"
  /\ needsTwoFactor' = FALSE
  /\ formLoading' = FALSE
  /\ toast' = "none"
  /\ location' = p
  /\ from' = "none"
  /\ href' = FALSE
  /\ inflight' = {}
  /\ UNCHANGED <<token, issued, expired, pending, verified>>

\* the navigation started by window.location.href = "/login" completes
Redirect ==
  /\ href
  /\ Mount(LoginPath)
  /\ ev' = Event("redirect", "-", NoReq)

\* the user reloads the page or opens a URL
Reload(p) ==
  /\ Alive
  /\ Mount(p)
  /\ ev' = Event("reload", "-", NoReq)

\* checkAuth up to its first await
checkAuth ==
  /\ UNCHANGED loggedOut
  /\ UNCHANGED clocks
  /\ pcCheck = "mount"
  /\ IF token = None
       THEN /\ isLoading' = FALSE
            /\ pcCheck' = "done"
            /\ inflight' = inflight
            /\ ev' = Event("checkAuth", "notoken", NoReq)
       ELSE /\ isLoading' = TRUE
            /\ pcCheck' = "refresh"
            /\ inflight' = inflight \cup {Req("checkRefresh", getAuthHeaders(token), "-", TRUE)}
            /\ ev' = Event("checkAuth", "sent", NoReq)
  /\ UNCHANGED <<token, user, timers, needsTwoFactor, formLoading, toast, href,
                 issued, expired, pending, verified>>
  /\ Render(location)

\* checkAuth resumes after await refreshToken()
checkAuthRefreshed(r, st, access) ==
  /\ UNCHANGED loggedOut
  /\ UNCHANGED clocks
  /\ r.op = "checkRefresh"
  /\ ServerStep(r, st, access)
  /\ LET c1 == refreshToken(Client, st, access)
         c2 == checkAuthCatch(c1, st)
     IN  /\ Commit(c2)
         /\ IF Throws(st)
              THEN /\ isLoading' = checkAuthFinally(isLoading, TRUE)
                   /\ pcCheck' = "done"
                   /\ inflight' = inflight \ {r}
              ELSE /\ isLoading' = isLoading
                   /\ pcCheck' = "me"
                   /\ inflight' = (inflight \ {r})
                        \cup {Req("checkMe", getAuthHeaders(c2.token), "-", TRUE)}
  /\ UNCHANGED <<needsTwoFactor, formLoading, toast>>
  /\ ev' = Event("checkRefresh", st, r)
  /\ Render(location)

\* checkAuth resumes after await fetchUserData()
checkAuthFetched(r, st) ==
  /\ UNCHANGED loggedOut
  /\ UNCHANGED clocks
  /\ r.op = "checkMe"
  /\ ServerStep(r, st, None)
  /\ Commit(fetchUserData(Client, st, Profile(r)))
  /\ isLoading' = checkAuthFinally(isLoading, FALSE)
  /\ pcCheck' = "done"
  /\ inflight' = inflight \ {r}
  /\ UNCHANGED <<needsTwoFactor, formLoading, toast>>
  /\ ev' = Event("checkMe", st, r)
  /\ Render(location)


\* Login: onSubmit up to await login(...)
onSubmit(acct, good) ==
  /\ UNCHANGED loggedOut
  /\ UNCHANGED clocks
  /\ Alive
  /\ location = LoginPath /\ ~needsTwoFactor /\ ~formLoading
  /\ CanSend(Req("login", getAuthHeaders(token), acct, good))
  /\ inflight' = inflight \cup {Req("login", getAuthHeaders(token), acct, good)}
  /\ formLoading' = TRUE
  /\ ev' = Event("onSubmit", "sent", NoReq)
  /\ UNCHANGED <<token, user, isLoading, timers, pcCheck, needsTwoFactor, toast,
                 location, from, href, issued, expired, pending, verified>>

\* Login: onSubmit resumes after await login(...)
onSubmitDone(r, st, access) ==
  /\ loggedOut' = IF st = "ok" THEN FALSE ELSE loggedOut
  /\ UNCHANGED clocks
  /\ r.op = "login"
  /\ ServerStep(r, st, access)
  /\ Commit(login(Client, st, access))
  /\ needsTwoFactor' = onSubmitNeedsTwoFactor(st, needsTwoFactor)
  /\ toast' = IF st = "twofactor" THEN "Two-factor authentication required"
              ELSE IF st = "ok" THEN "Login successful"
              ELSE "Login failed"
  /\ formLoading' = FALSE
  /\ inflight' = inflight \ {r}
  /\ UNCHANGED <<isLoading, pcCheck>>
  /\ ev' = Event("login", st, r)
  /\ Render(IF st = "ok" THEN "/" ELSE location)

\* Login: onTwoFactorSubmit up to await verifyTwoFactor(code)
onTwoFactorSubmit(good) ==
  /\ UNCHANGED loggedOut
  /\ UNCHANGED clocks
  /\ Alive
  /\ location = LoginPath /\ needsTwoFactor /\ ~formLoading
  /\ CanSend(Req("verify", getAuthHeaders(token), "tfa", good))
  /\ inflight' = inflight \cup {Req("verify", getAuthHeaders(token), "tfa", good)}
  /\ formLoading' = TRUE
  /\ ev' = Event("onTwoFactorSubmit", "sent", NoReq)
  /\ UNCHANGED <<token, user, isLoading, timers, pcCheck, needsTwoFactor, toast,
                 location, from, href, issued, expired, pending, verified>>

\* Login: onTwoFactorSubmit resumes after await verifyTwoFactor(code)
onTwoFactorSubmitDone(r, st, access) ==
  /\ loggedOut' = IF st = "ok" THEN FALSE ELSE loggedOut
  /\ UNCHANGED clocks
  /\ r.op = "verify"
  /\ ServerStep(r, st, access)
  /\ Commit(verifyTwoFactor(Client, st, access))
  /\ needsTwoFactor' = IF st = "ok" THEN FALSE ELSE needsTwoFactor
  /\ toast' = IF st = "ok" THEN "Login successful" ELSE "Verification failed"
  /\ formLoading' = FALSE
  /\ inflight' = inflight \ {r}
  /\ UNCHANGED <<isLoading, pcCheck>>
  /\ ev' = Event("verify", st, r)
  /\ Render(IF st = "ok" THEN "/" ELSE location)

\* the refresh interval fires: the callback up to await refreshToken()
refreshInterval ==
  /\ UNCHANGED loggedOut
  /\ UNCHANGED clocks
  /\ timerOn
  /\ pcCheck # "mount"
  /\ CanSend(Req("refreshInterval", getAuthHeaders(token), "-", TRUE))
  /\ inflight' = inflight \cup {Req("refreshInterval", getAuthHeaders(token), "-", TRUE)}
  /\ ev' = Event("refreshInterval", "sent", NoReq)
  /\ UNCHANGED <<token, user, isLoading, timers, pcCheck, needsTwoFactor, formLoading,
                 toast, location, from, href, issued, expired, pending, verified>>

\* the interval callback resumes after await refreshToken()
refreshIntervalDone(r, st, access) ==
  /\ UNCHANGED loggedOut
  /\ UNCHANGED clocks
  /\ r.op = "refreshInterval"
  /\ ServerStep(r, st, access)
  /\ Commit(refreshIntervalCatch(refreshToken(Client, st, access), st))
  /\ inflight' = inflight \ {r}
  /\ UNCHANGED <<isLoading, pcCheck, needsTwoFactor, formLoading, toast>>
  /\ ev' = Event("refresh", st, r)
  /\ Render(location)

\* a consumer under a protected route calls refreshUserData
refreshUserData ==
  /\ UNCHANGED loggedOut
  /\ UNCHANGED clocks
  /\ Alive
  /\ View(location, isLoading, user) = "children"
  /\ CanSend(Req("refreshUserData", getAuthHeaders(token), "-", TRUE))
  /\ inflight' = inflight \cup {Req("refreshUserData", getAuthHeaders(token), "-", TRUE)}
  /\ isLoading' = TRUE
  /\ ev' = Event("refreshUserData", "sent", NoReq)
  /\ UNCHANGED <<token, user, timers, pcCheck, needsTwoFactor, formLoading, toast,
                 href, issued, expired, pending, verified>>
  /\ Render(location)

\* refreshUserData resumes after await fetchUserData()
refreshUserDataDone(r, st) ==
  /\ UNCHANGED loggedOut
  /\ UNCHANGED clocks
  /\ r.op = "refreshUserData"
  /\ ServerStep(r, st, None)
  /\ Commit(fetchUserData(Client, st, Profile(r)))
  /\ isLoading' = FALSE
  /\ inflight' = inflight \ {r}
  /\ UNCHANGED <<pcCheck, needsTwoFactor, formLoading, toast>>
  /\ ev' = Event("me", st, r)
  /\ Render(location)

\* a protected view calls a business endpoint (fetchPatients, updatePatientStatus)
protectedCall(ep) ==
  /\ UNCHANGED loggedOut
  /\ UNCHANGED clocks
  /\ Alive
  /\ View(location, isLoading, user) = "children"
  /\ CanSend(Req(ep, getAuthHeaders(token), "-", TRUE))
  /\ inflight' = inflight \cup {Req(ep, getAuthHeaders(token), "-", TRUE)}
  /\ ev' = Event(ep, "sent", NoReq)
  /\ UNCHANGED <<token, user, isLoading, timers, pcCheck, needsTwoFactor, formLoading,
                 toast, location, from, href, issued, expired, pending, verified>>

\* the business call's apiRequest resumes after await fetch(...)
protectedCallDone(r, st) ==
  /\ UNCHANGED loggedOut
  /\ UNCHANGED clocks
  /\ r.op \in Endpoints
  /\ ServerStep(r, st, None)
  /\ Commit(apiRequest(Client, st))
  /\ inflight' = inflight \ {r}
  /\ UNCHANGED <<isLoading, pcCheck, needsTwoFactor, formLoading, toast>>
  /\ ev' = Event(r.op, st, r)
  /\ Render(location)

\* Navbar: handleLogout (the Navbar is part of the protected layout)
handleLogout ==
  /\ loggedOut' = TRUE
  /\ UNCHANGED clocks
  /\ Alive
  /\ View(location, isLoading, user) = "children"
  /\ Commit(logout(Client))
  /\ toast' = "Logged out successfully"
  /\ location' = LoginPath
  /\ ev' = Event("handleLogout", "-", NoReq)
  /\ UNCHANGED <<isLoading, pcCheck, needsTwoFactor, formLoading, from, inflight,
                 issued, expired, pending, verified>>

\* Sidebar: a link to another protected route
Navigate(p) ==
  /\ UNCHANGED loggedOut
  /\ UNCHANGED clocks
  /\ Alive
  /\ View(location, isLoading, user) = "children"
  /\ p \in Protected \ {location}
  /\ location' = p
  /\ ev' = Event("navigate", "-", NoReq)
  /\ UNCHANGED <<token, user, isLoading, timers, pcCheck, needsTwoFactor, formLoading,
                 toast, from, href, inflight, issued, expired, pending, verified>>

\* back end: an access token reaches the end of its lifetime or is revoked
Expire ==
  /\ UNCHANGED loggedOut
  /\ UNCHANGED clocks
  /\ expired < issued
  /\ expired' = expired + 1
  /\ ev' = Event("expire", "-", NoReq)
  /\ UNCHANGED <<token, user, isLoading, timers, pcCheck, needsTwoFactor, formLoading,
                 toast, location, from, href, inflight, issued, pending, verified>>

Access == Tokens \cup {None}

\* the answer to an awaited request arrives and the awaiting code resumes
checkAuthRefreshedStep ==
  \E r \in inflight : \E st \in Outcomes(r) : \E a \in Grants(r, st) :
    checkAuthRefreshed(r, st, a)

checkAuthFetchedStep ==
  \E r \in inflight : \E st \in Outcomes(r) : checkAuthFetched(r, st)

onSubmitDoneStep ==
  \E r \in inflight : \E st \in Outcomes(r) : \E a \in Grants(r, st) :
    onSubmitDone(r, st, a)

onTwoFactorSubmitDoneStep ==
  \E r \in inflight : \E st \in Outcomes(r) : \E a \in Grants(r, st) :
    onTwoFactorSubmitDone(r, st, a)

refreshIntervalDoneStep ==
  \E r \in inflight : \E st \in Outcomes(r) : \E a \in Grants(r, st) :
    refreshIntervalDone(r, st, a)

refreshUserDataDoneStep ==
  \E r \in inflight : \E st \in Outcomes(r) : refreshUserDataDone(r, st)

protectedCallDoneStep ==
  \E r \in inflight : \E st \in Outcomes(r) : protectedCallDone(r, st)

Next ==
  \/ Redirect
  \/ \E p \in Paths : Reload(p)
  \/ checkAuth
  \/ checkAuthRefreshedStep
  \/ checkAuthFetchedStep
  \/ \E acct \in Accounts, good \in BOOLEAN : onSubmit(acct, good)
  \/ onSubmitDoneStep
  \/ \E good \in BOOLEAN : onTwoFactorSubmit(good)
  \/ onTwoFactorSubmitDoneStep
  \/ refreshInterval
  \/ refreshIntervalDoneStep
  \/ refreshUserData
  \/ refreshUserDataDoneStep
  \/ \E ep \in Endpoints : protectedCall(ep)
  \/ protectedCallDoneStep
  \/ handleLogout
  \/ \E p \in Protected : Navigate(p)
  \/ Expire

Spec == Init /\ [][Next]_vars

\* ------------------------------------------------------- timed behaviour
\* One time unit is a minute. Requests are answered without delay and never
\* fail in transport here, so the only things that take time are the refresh
\* interval and the lifetime of a token.
RefreshPeriod == 25     \* setInterval(..., 25 * 60 * 1000)
TokenLifetime == 30     \* ACCESS_TOKEN_EXPIRE_MINUTES

\* an Authenticated page just after its startup check: the token was
\* refreshed and the interval was set a moment ago
InitTimed ==
  \E a \in Accounts :
    /\ token = Token(2, a)
    /\ user = a
    /\ isLoading = FALSE
    /\ timers = 1
    /\ pcCheck = "done"
    /\ needsTwoFactor = FALSE
    /\ formLoading = FALSE
    /\ toast = "none"
    /\ location \in Protected
    /\ from = "none"
    /\ href = FALSE
    /\ inflight = {}
    /\ issued = 2
    /\ expired \in 0..1
    /\ pending = FALSE
    /\ verified = (a = "tfa")
    /\ ev = [op |-> "checkMe", out |-> "ok",
             pre |-> "Anonymous", preTok |-> Token(2, a), preUser |-> NoUser,
             preLoc |-> location, preFrom |-> "none"]
    /\ loggedOut = FALSE
    /\ tokenAge = 0
    /\ timerAge = 0

\* a minute passes, unless an interval callback is due first
Tick ==
  /\ UNCHANGED loggedOut
  /\ tokenAge <= TokenLifetime
  /\ timerOn => timerAge < RefreshPeriod
  /\ tokenAge' = tokenAge + 1
  /\ timerAge' = IF timerOn THEN timerAge + 1 ELSE timerAge
  /\ expired' = IF tokenAge + 1 > TokenLifetime THEN issued ELSE expired
  /\ ev' = Event("tick", "-", NoReq)
  /\ UNCHANGED <<token, user, isLoading, timers, pcCheck, needsTwoFactor, formLoading,
                 toast, location, from, href, inflight, issued, pending, verified>>

\* the interval callback runs RefreshPeriod after the interval was set or
\* last fired: refreshToken(), and logout() in its catch
TimedRefreshInterval ==
  /\ UNCHANGED loggedOut
  /\ timerOn /\ timerAge = RefreshPeriod
  /\ LET r == Req("refreshInterval", getAuthHeaders(token), "-", TRUE)
         st == ServerStatus(r)
     IN  \E access \in Grants(r, st) :
           /\ Commit(refreshIntervalCatch(refreshToken(Client, st, access), st))
           /\ issued' = IF access = None THEN issued ELSE issued + 1
           /\ tokenAge' = IF access = None THEN tokenAge ELSE 0
           /\ ev' = Event("refresh", st, r)
  /\ timerAge' = 0
  /\ UNCHANGED <<isLoading, pcCheck, needsTwoFactor, formLoading, toast, inflight,
                 expired, pending, verified>>
  /\ Render(location)

\* a consumer calls refreshUserData: setUser with the re-fetched profile
\* re-runs the interval effect, which clears the interval and sets a new one
TimedRefreshUserData ==
  /\ UNCHANGED loggedOut
  /\ ~href
  /\ View(location, isLoading, user) = "children"
  /\ LET r == Req("refreshUserData", getAuthHeaders(token), "-", TRUE)
         st == ServerStatus(r)
         c == fetchUserData(Client, st, Profile(r))
     IN  /\ Commit(c)
         /\ timerAge' = IF userChanged(user, c.user, c.fresh) THEN 0 ELSE timerAge
         /\ ev' = Event("me", st, r)
  /\ isLoading' = FALSE
  /\ Render(location)
  /\ UNCHANGED <<pcCheck, needsTwoFactor, formLoading, toast, inflight, issued,
                 expired, pending, verified, tokenAge>>

NextTimed ==
  \/ Tick
  \/ TimedRefreshInterval
  \/ TimedRefreshUserData

SpecTimed == InitTimed /\ [][NextTimed]_vars

\* ------------------------------------------------------------- liveness
\* checkAuth is called by the effect that runs when the AuthProvider has
\* mounted. Every request checkAuth or refreshUserData awaits is answered
\* (with a success, an error status or a failed fetch): strong fairness,
\* because a page load in between discards the awaiting code and the next
\* checkAuth sends its requests anew.
SpecLive ==
  /\ Init /\ [][Next]_vars
  /\ WF_vars(checkAuth)
  /\ SF_vars(checkAuthRefreshedStep)
  /\ SF_vars(checkAuthFetchedStep)
  /\ SF_vars(refreshUserDataDoneStep)

TypeOK ==
  /\ token \in Access
  /\ user \in Accounts \cup {NoUser}
  /\ isLoading \in BOOLEAN /\ href \in BOOLEAN
  /\ timers \in 0..1
  /\ pcCheck \in {"mount", "refresh", "me", "done"}
  /\ location \in Paths
  /\ Cardinality(inflight) <= MaxInflight
  /\ issued \in 0..MaxTok /\ expired \in 0..issued
  /\ loggedOut \in BOOLEAN
  /\ tokenAge \in 0..(TokenLifetime + 1) /\ timerAge \in 0..RefreshPeriod

\* ------------------------------------------------------------ properties
Did(op, out) == ev.op = op /\ ev.out = out

Session == SessionState(user, needsTwoFactor)

\* no session operation is in flight
Quiescent ==
  inflight = {} /\ pcCheck = "done" /\ ~href /\ ~isLoading /\ ~formLoading

\* logout() of the AuthProvider ran in the last step: from the Navbar, or from
\* the catch block of the refresh interval
LogoutRan == ev.op = "handleLogout" \/ (ev.op = "refresh" /\ ev.out \in Failures)

\* C1: after a login whose response is a success without requires_two_factor,
\* the coordinator is Authenticated (isAuthenticated is true, the guard admits
\* protected views) and the returned access token is in the Token Store.
C1_LoginYieldsAuthenticated ==
  Did("login", "ok") =>
    /\ IsAuthenticated(user)
    /\ token.kind = "plain"
    /\ View(location, isLoading, user) \in {"children", "loading"}

C3_InvalidCodeKeepsPending ==
  Did("verify", "unauthorized") /\ ev.pre = "AwaitingTwoFactor" =>
    /\ Session = "AwaitingTwoFactor"
    /\ token \in {None, ev.preTok}
    /\ ~href

\* C4: a login rejected for invalid credentials is surfaced to the form as an
\* error and leaves the Token Store and the coordinator's user as they were.
C4_RejectedLoginKeepsSession ==
  Did("login", "unauthorized") =>
    /\ toast = "Login failed"
    /\ token = ev.preTok
    /\ user = ev.preUser

\* C5: a periodic refresh that fails while the session is Authenticated, with
\* whatever cause, leaves the Token Store empty and the state Anonymous (no
\* user, no refresh interval, redirect to /login under way): one and the same
\* result for every cause.
C5_RefreshFailureEndsSession ==
  ev.op = "refresh" /\ ev.out \in Failures /\ ev.pre = "Authenticated" =>
    /\ token = None
    /\ user = NoUser
    /\ ~timerOn
    /\ href

C5_Witness ==
  /\ Did("refresh", "network")
  /\ ev.pre = "Authenticated"
  /\ ev.preTok # None
  /\ token = None

\* C6: a protected view is rendered only when a user profile is held and
\* isLoading is false; in every state that is neither loading nor
\* authenticated the guard has redirected to /login.
C6_GuardAdmitsOnlyAuthenticated ==
  /\ View(location, isLoading, user) = "children" =>
       location \in Protected /\ user # NoUser /\ ~isLoading
  /\ ~isLoading /\ user = NoUser => location = LoginPath
  /\ isLoading /\ location \in Protected => View(location, isLoading, user) = "loading"

C6_Witness ==
  /\ View(location, isLoading, user) = "children"
  /\ location = "/patients"
  /\ token # None

\* C7: an unauthorized response to a protected call of any endpoint, received
\* while Authenticated, clears the Token Store and forces the redirect to
\* /login, and the page that redirect loads reports no authenticated user.
C7_UnauthorizedEndsSession ==
  /\ ev.op \in Endpoints /\ ev.out = "unauthorized" /\ ev.pre = "Authenticated" =>
       token = None /\ href
  /\ ev.op = "redirect" =>
       ~IsAuthenticated(user) /\ ~timerOn /\ location = LoginPath

C7_Witness ==
  /\ Did("patientStatus", "unauthorized")
  /\ ev.pre = "Authenticated"
  /\ ev.preTok # None
  /\ token = None

\* C8: logout() from any session state leaves no user, an empty Token Store
\* and the redirect to /login under way; called when already Anonymous it
\* leaves the state Anonymous; the page the redirect loads is Anonymous.
C8_LogoutYieldsAnonymous ==
  /\ LogoutRan => token = None /\ user = NoUser /\ ~timerOn /\ href
  /\ LogoutRan /\ ev.pre = "Anonymous" => Session = "Anonymous"
  /\ ev.op = "redirect" => Session = "Anonymous"

C8_Witness ==
  /\ LogoutRan
  /\ ev.pre = "Anonymous"
  /\ ev.preTok = None
  /\ Session = "Anonymous"

\* C9: whenever no session operation is in flight, either a token and a user
\* profile are both held or neither is.
C9_NoPartialSession ==
  Quiescent =>
    \/ token # None /\ user # NoUser
    \/ token = None /\ user = NoUser

\* C10: a refresh (of checkAuth or of the refresh interval) or a login that
\* fails in transport leaves the Token Store and the user as they were.
C10_NetworkFailureKeepsSession ==
  ev.out = "network" /\ ev.op \in {"checkRefresh", "refresh", "login"} =>
    /\ token = ev.preTok
    /\ user = ev.preUser

\* C11: a page load (a reload by the user, or the redirect to /login) leaves
\* the Token Store as it was, and whenever a step empties a Token Store that
\* held a token, that step was logout(), a failed refresh (of the startup
\* check or of the refresh interval) or an unauthorized response.
C11_TokenRemovedOnlyByLogoutOrExpiry ==
  /\ ev.op \in {"reload", "redirect"} => token = ev.preTok
  /\ ev.preTok # None /\ token = None =>
       \/ LogoutRan
       \/ ev.op \in {"checkRefresh", "refresh"} /\ ev.out \in Failures
       \/ ev.out = "unauthorized"

C11_Witness ==
  /\ ev.op = "reload"
  /\ ev.pre = "Authenticated"
  /\ ev.preTok # None
  /\ token = ev.preTok

\* C12: when the guard has sent a navigation to a protected path P to /login,
\* state.from is P, and after the next successful login or two-factor
\* verification the router is at P.
C12_LoginResumesAtRequestedPath ==
  /\ /\ ev.preLoc \in Protected /\ location = LoginPath
     /\ ev.op \notin {"handleLogout", "reload", "redirect"}
     => from = ev.preLoc
  /\ ev.op \in {"login", "verify"} /\ ev.out = "ok" /\ ev.preFrom \in Protected
     => location = ev.preFrom

\* C13: started with an empty Token Store, the guard shows the loading
\* indicator until checkAuth has run; checkAuth sends no request, after which
\* the guard has redirected to /login with state.from the requested path;
\* protected content is not rendered.
C13_StartupWithoutToken ==
  /\ pcCheck = "mount" /\ location \in Protected =>
       View(location, isLoading, user) = "loading"
  /\ Did("checkAuth", "notoken") =>
       /\ inflight = {}
       /\ pcCheck = "done"
       /\ View(location, isLoading, user) # "children"
       /\ ev.preLoc \in Protected => location = LoginPath /\ from = ev.preLoc

C13_Witness ==
  /\ Did("checkAuth", "notoken")
  /\ ev.preLoc = "/patients"
  /\ location = LoginPath
  /\ from = "/patients"

\* C14: started with a stored token, checkAuth first awaits the refresh and
\* only then the profile fetch, the guard showing the loading indicator
\* meanwhile; when both have succeeded the user is set and the guard renders
\* the path that was requested, without a redirect to /login in between.
C14_StartupWithValidToken ==
  /\ pcCheck = "refresh" =>
       /\ \E r \in inflight : r.op = "checkRefresh"
       /\ \A r \in inflight : r.op # "checkMe"
       /\ user = NoUser
  /\ pcCheck = "me" =>
       /\ \E r \in inflight : r.op = "checkMe"
       /\ \A r \in inflight : r.op # "checkRefresh"
       /\ user = NoUser
  /\ pcCheck \in {"refresh", "me"} /\ location \in Protected =>
       View(location, isLoading, user) = "loading" /\ from = "none"
  /\ Did("checkMe", "ok") =>
       /\ IsAuthenticated(user) /\ ~isLoading /\ pcCheck = "done"
       /\ ev.preLoc \in Protected =>
            /\ location = ev.preLoc
            /\ View(location, isLoading, user) = "children"
            /\ from = "none"

C14_Witness ==
  /\ Did("checkMe", "ok")
  /\ ev.preLoc = "/patients"
  /\ View(location, isLoading, user) = "children"
  /\ Valid(token)

\* C15: while the Login page is on its two-factor step, the Token Store holds
\* no token taken from the login response that asked for the second factor.
C15_NoProvisionalTokenStored ==
  needsTwoFactor => token.kind # "prov"

\* C16: from the page load until checkAuth has finished, isLoading is true:
\* the guard renders the loading indicator and neither protected content nor
\* a redirect; and when the startup refresh or profile fetch fails, no user is
\* set and no protected content is rendered.
C16_GuardWaitsForStartup ==
  /\ pcCheck # "done" =>
       /\ isLoading
       /\ from = "none"
       /\ View(location, isLoading, user) # "children"
       /\ location \in Protected => View(location, isLoading, user) = "loading"
  /\ ev.op \in {"checkRefresh", "checkMe"} /\ ev.out \in Failures =>
       /\ ~IsAuthenticated(user)
       /\ View(location, isLoading, user) # "children"

C16_Witness ==
  /\ Did("checkRefresh", "unauthorized")
  /\ ev.preTok # None
  /\ ev.preLoc \in Protected
  /\ location = LoginPath
  /\ token = None

\* C17: after logout() and after the AuthProvider is torn down no refresh
\* interval is left, also when a request of the interval is still in flight;
\* an interval exists only while a user is held, and every request the
\* interval sends is sent while a user is held.
C17_TimerCancelledOnLogoutAndTeardown ==
  /\ LogoutRan => timers = 0
  /\ pcCheck = "mount" => timers = 0
  /\ user = NoUser => ~timerOn
  /\ Did("refreshInterval", "sent") => ev.preUser # NoUser /\ user # NoUser

C17_Witness ==
  /\ ev.op = "handleLogout"
  /\ ev.pre = "Authenticated"
  /\ \E r \in inflight : r.op = "refreshInterval"
  /\ timers = 0

\* C18: (timed) while a user is held, the access token in the Token Store is
\* within its lifetime: the refresh interval replaces it in time, also when
\* refreshUserData runs between two firings.
C18_TokenReplacedBeforeExpiry ==
  IsAuthenticated(user) => Valid(token)

\* C19: in every state the number of refresh intervals is one if a user
\* profile is held and zero if not.
C19_OneTimerIffUser ==
  timers = IF user # NoUser THEN 1 ELSE 0

C19_Witness ==
  /\ Did("me", "ok")
  /\ ev.preUser # NoUser
  /\ user # NoUser
  /\ timers = 1

\* C20: an unauthorized response to a protected call leaves a token in the
\* Token Store that the back end still accepts (a newer one than the one the
\* request carried, which was rejected).
C20_StaleUnauthorizedKeepsNewerToken ==
  ev.op \in Endpoints /\ ev.out = "unauthorized" /\ Valid(ev.preTok) =>
    token = ev.preTok

\* C21: from the Navbar's logout until the next login or two-factor
\* verification succeeds the Token Store is empty: no response that arrives
\* later (of a refresh that was in flight when logout ran) writes a token.
C21_LogoutKeepsStoreEmpty ==
  loggedOut => token = None

\* C22: whenever isLoading is true it later becomes false, and the guard then
\* shows no loading indicator (it renders the protected content or has
\* redirected to /login), provided every request awaited by checkAuth or
\* refreshUserData is answered.
C22_LoadingEnds ==
  isLoading ~> (~isLoading /\ View(location, isLoading, user) # "loading")

C22_Witness ==
  /\ Did("me", "network")
  /\ ~isLoading
  /\ user = NoUser
  /\ location = LoginPath

====
